---- MODULE Spec2Model ----
(***************************************************************************)
(* A model of io_block.py: the IOCapture facade, the IOManager it owns,    *)
(* the two StdCapture redirectors of sys.stdout / sys.stderr and the       *)
(* StringIO buffers they write into.                                       *)
(*                                                                         *)
(* Python values are modelled as follows.                                  *)
(*   Optional[T]   a sequence of length 0 (None) or 1 (the value)          *)
(*   str           a sequence of characters                                *)
(*   StringIO      a record [data, pos, closed]                            *)
(*   object ids    natural numbers: REAL is the stream that was installed  *)
(*                 in sys when the process started, 1..MaxBufs are the     *)
(*                 StringIO objects                                        *)
(*   exceptions    the name of the exception class, "none" for a normal    *)
(*                 return                                                  *)
(* The assert statements are modelled as executed (python without -O).    *)
(***************************************************************************)
EXTENDS Integers, Sequences, FiniteSets, TLC

\* ------------------------------------------------------------- bounds
\* number of write() calls in one behaviour
MaxWrites == 3
\* number of scoped captures open at the same time
MaxDepth == 2
\* number of StringIO objects that can be alive at the same time
MaxBufs == 4

\* ------------------------------------------------------------- values
None == <<>>
Some(x) == <<x>>
Val(o) == o[1]

REAL == 0
BufIds == 1..MaxBufs

sys_io_name(fd) == CASE fd = 0 -> "stdin" [] fd = 1 -> "stdout" [] fd = 2 -> "stderr"

Names == {sys_io_name(1), sys_io_name(2)}

\* the characters a caller writes; every write() call writes one of Texts
Alphabet == {"a", "b"}
Texts == {<<c>> : c \in Alphabet}

\* the IOCapture instances of the process, and the dicts handed to capture()
AllFacades == {1, 2}
Sinks == {"d1"}

VARIABLES
    facades,    \* the IOCapture instances that exist (fixed in a behaviour)
    capture,    \* capture[f]: IOCapture._capture, Optional[IOManager]
    sys,        \* sys[name]: the object installed as sys.stdout / sys.stderr
    heap,       \* heap[id]: the StringIO object id (closed while not allocated)
    real,       \* real[name]: the text that reached the original stream
    sink,       \* sink[d]: the dict d, keys 'out' and 'err' (Optional[str])
    stack,      \* the capture() generators suspended at their yield
    last,       \* the last call made and how it ended
    exited,     \* the scope the last call left, with the sink it found
    phase,      \* phase[f]: the last lifecycle call that succeeded on f
    scopesRun,  \* scopesRun[f]: the scopes f completed since start_capturing
                \* (2 for more) if it ran nothing else, or -1
    liveAtStart,\* liveAtStart[f][name]: what sys held when f was last started
    dropped,    \* the unread text a stop_capturing closed, kept while nothing
                \* but start_capturing was called since
    nwrites     \* number of write() calls so far

vars == <<facades, capture, sys, heap, real, sink, stack, last, exited, phase, scopesRun, liveAtStart, dropped, nwrites>>

\* ------------------------------------------------------------- StringIO
NewStringIO == [data |-> <<>>, pos |-> 0, closed |-> FALSE]

StringIOSeek(b, p) == [b EXCEPT !.pos = p]

\* read(): the text from the position to the end; the position moves to the end
StringIORead(b) ==
    [res |-> SubSeq(b.data, b.pos + 1, Len(b.data)),
     buf |-> [b EXCEPT !.pos = Len(b.data)]]

\* truncate(): cut the text at the position
StringIOTruncate(b) == [b EXCEPT !.data = SubSeq(b.data, 1, b.pos)]

\* write(s) at the position, over what is there; the position moves past s
StringIOWrite(b, s) ==
    [b EXCEPT !.data = SubSeq(b.data, 1, b.pos) \o s
                         \o SubSeq(b.data, b.pos + Len(s) + 1, Len(b.data)),
              !.pos = b.pos + Len(s)]

\* close(): the text is released
StringIOClose(b) == [data |-> <<>>, pos |-> 0, closed |-> TRUE]

\* ------------------------------------------------------------- StdCapture
World == [sys |-> sys, heap |-> heap]

\* the objects some reference still leads to
Reachable(w, taken) ==
    taken \cup {w.sys[n] : n \in Names}
          \cup UNION {{Val(capture[f]).out.old, Val(capture[f]).out.tmp_io,
                       Val(capture[f]).err.old, Val(capture[f]).err.tmp_io}
                      : f \in {g \in AllFacades : capture[g] # None}}

FreeIds(w, taken) == BufIds \ Reachable(w, taken)

NewId(w, taken) == CHOOSE i \in FreeIds(w, taken) : \A j \in FreeIds(w, taken) : i <= j

\* StdCapture(fd) that takes the storage of its buffer as it finds it
StdCaptureInit_NoNewBuffer(w, fd, taken) ==
    LET id == NewId(w, taken)
    IN  [c |-> [name |-> sys_io_name(fd), old |-> w.sys[sys_io_name(fd)], tmp_io |-> id],
         w |-> w]

\* StdCapture(fd): _old is what sys holds now, tmp_io a new StringIO
StdCaptureInit(w, fd, taken) ==
    LET id == NewId(w, taken)
    IN  [c |-> [name |-> sys_io_name(fd), old |-> w.sys[sys_io_name(fd)], tmp_io |-> id],
         w |-> [w EXCEPT !.heap[id] = NewStringIO]]

\* start() that installs nothing
StdStart_Noop(w, c) == w

StdStart(w, c) == [w EXCEPT !.sys[c.name] = c.tmp_io]

\* finish() that leaves the buffer open
StdFinish_NoClose(w, c) == [w EXCEPT !.sys[c.name] = c.old]

\* finish() that closes the buffer and leaves it installed
StdFinish_NoRestore(w, c) == [w EXCEPT !.heap[c.tmp_io] = StringIOClose(@)]

StdFinish(w, c) ==
    [w EXCEPT !.sys[c.name] = c.old, !.heap[c.tmp_io] = StringIOClose(@)]

\* suspend() that releases the buffer the way finish() does
StdSuspend_Release(w, c) ==
    [w EXCEPT !.sys[c.name] = c.old, !.heap[c.tmp_io] = StringIOClose(@)]

\* suspend() that restores nothing
StdSuspend_Noop(w, c) == w

StdSuspend(w, c) == [w EXCEPT !.sys[c.name] = c.old]

StdResume(w, c) == [w EXCEPT !.sys[c.name] = c.tmp_io]

\* snap() that reads from where the position is
StdSnap_NoRewind(w, c) ==
    LET b == w.heap[c.tmp_io]
        r == StringIORead(b)
    IN  IF b.closed
        THEN [exc |-> "ValueError", res |-> <<>>, w |-> w]
        ELSE [exc |-> "none", res |-> r.res,
              w |-> [w EXCEPT !.heap[c.tmp_io] = StringIOTruncate(StringIOSeek(r.buf, 0))]]

\* snap() that does not truncate
StdSnap_NoTruncate(w, c) ==
    LET b == w.heap[c.tmp_io]
        r == StringIORead(StringIOSeek(b, 0))
    IN  IF b.closed
        THEN [exc |-> "ValueError", res |-> <<>>, w |-> w]
        ELSE [exc |-> "none", res |-> r.res,
              w |-> [w EXCEPT !.heap[c.tmp_io] = StringIOSeek(r.buf, 0)]]

\* snap() that truncates where the read left the position
StdSnap_NoSecondSeek(w, c) ==
    LET b == w.heap[c.tmp_io]
        r == StringIORead(StringIOSeek(b, 0))
    IN  IF b.closed
        THEN [exc |-> "ValueError", res |-> <<>>, w |-> w]
        ELSE [exc |-> "none", res |-> r.res,
              w |-> [w EXCEPT !.heap[c.tmp_io] = StringIOTruncate(r.buf)]]

\* snap(): every StringIO method raises ValueError on a closed buffer
StdSnap(w, c) ==
    LET b == w.heap[c.tmp_io]
        r == StringIORead(StringIOSeek(b, 0))
    IN  IF b.closed
        THEN [exc |-> "ValueError", res |-> <<>>, w |-> w]
        ELSE [exc |-> "none", res |-> r.res,
              w |-> [w EXCEPT !.heap[c.tmp_io] = StringIOTruncate(StringIOSeek(r.buf, 0))]]

\* ------------------------------------------------------------- IOManager
IOManagerInit(o, e) == [out |-> o, err |-> e]

IOManagerStart(w, m) == StdStart(StdStart(w, m.out), m.err)

IOManagerFinish(w, m) == StdFinish(StdFinish(w, m.out), m.err)

\* suspend() that forgets the error channel
IOManagerSuspend_OutOnly(w, m) == StdSuspend(w, m.out)

IOManagerSuspend(w, m) == StdSuspend(StdSuspend(w, m.out), m.err)

IOManagerResume(w, m) == StdResume(StdResume(w, m.out), m.err)

\* read() that puts the channels back on their old targets before snapping
IOManagerRead_Suspending(w, m) ==
    LET v == StdSuspend(StdSuspend(w, m.out), m.err)
        o == StdSnap(v, m.out)
        e == StdSnap(o.w, m.err)
    IN  IF o.exc # "none" THEN [exc |-> o.exc, ret |-> None, w |-> o.w]
        ELSE IF e.exc # "none" THEN [exc |-> e.exc, ret |-> None, w |-> e.w]
        ELSE [exc |-> "none", ret |-> Some(<<o.res, e.res>>), w |-> e.w]

\* read(): out is snapped first; an exception of a snap ends the call
IOManagerRead(w, m) ==
    LET o == StdSnap(w, m.out)
        e == StdSnap(o.w, m.err)
    IN  IF o.exc # "none" THEN [exc |-> o.exc, ret |-> None, w |-> o.w]
        ELSE IF e.exc # "none" THEN [exc |-> e.exc, ret |-> None, w |-> e.w]
        ELSE [exc |-> "none", ret |-> Some(<<o.res, e.res>>), w |-> e.w]

\* ------------------------------------------------------------- IOCapture
\* The result of a method: the exception, self._capture afterwards, the world
\* afterwards and the value returned.
Result(exc, self, w, ret) == [exc |-> exc, cap |-> self, w |-> w, ret |-> ret]

\* start_capturing without its assert
start_capturing_NoAssert(self, w) ==
    LET o == StdCaptureInit(w, 1, {})
        e == StdCaptureInit(o.w, 2, {o.c.tmp_io})
        m == IOManagerInit(o.c, e.c)
    IN  Result("none", Some(m), IOManagerStart(e.w, m), None)

start_capturing(self, w) ==
    IF self # None
    THEN Result("AssertionError", self, w, None)
    ELSE LET o == StdCaptureInit(w, 1, {})
             e == StdCaptureInit(o.w, 2, {o.c.tmp_io})
             m == IOManagerInit(o.c, e.c)
         IN  Result("none", Some(m), IOManagerStart(e.w, m), None)

\* stop_capturing that keeps the reference to the finished IOManager
stop_capturing_KeepRef(self, w) ==
    IF self # None
    THEN Result("none", self, IOManagerFinish(w, Val(self)), None)
    ELSE Result("none", self, w, None)

stop_capturing(self, w) ==
    IF self # None
    THEN Result("none", None, IOManagerFinish(w, Val(self)), None)
    ELSE Result("none", self, w, None)

resume_capture(self, w) ==
    IF self # None
    THEN Result("none", self, IOManagerResume(w, Val(self)), None)
    ELSE Result("none", self, w, None)

\* read_capture guarded the way resume_capture is
read_capture_Tolerant(self, w) ==
    IF self = None
    THEN Result("none", self, w, Some(<<(<<>>), (<<>>)>>))
    ELSE LET r == IOManagerRead(w, Val(self))
         IN  Result(r.exc, self, r.w, r.ret)

read_capture(self, w) ==
    IF self = None
    THEN Result("AssertionError", self, w, None)
    ELSE LET r == IOManagerRead(w, Val(self))
         IN  Result(r.exc, self, r.w, r.ret)

\* suspend_capture guarded the way resume_capture is
suspend_capture_Guarded(self, w) ==
    IF self = None
    THEN Result("none", self, w, None)
    ELSE Result("none", self, IOManagerSuspend(w, Val(self)), None)

\* None has no attribute suspend
suspend_capture(self, w) ==
    IF self = None
    THEN Result("AttributeError", self, w, None)
    ELSE Result("none", self, IOManagerSuspend(w, Val(self)), None)

\* capture(out_buf) up to its yield
capture_enter(self, w) == resume_capture(self, w)

\* capture(out_buf) without the finally clause
capture_exit_NoSuspend(self, w, out_buf) ==
    LET r == read_capture(self, w)
    IN  IF self = None THEN [res |-> suspend_capture(self, w), out_buf |-> out_buf]
        ELSE [res |-> Result("none", r.cap, r.w, None),
              out_buf |-> [out |-> Some(Val(r.ret)[1]), err |-> Some(Val(r.ret)[2])]]

\* capture(out_buf) whose finally clause suspends only an active session
capture_exit_Guarded(self, w, out_buf) ==
    LET s == suspend_capture_Guarded(self, w)
        r == read_capture(s.cap, s.w)
    IN  IF r.exc # "none" THEN [res |-> r, out_buf |-> out_buf]
        ELSE [res |-> Result("none", r.cap, r.w, None),
              out_buf |-> [out |-> Some(Val(r.ret)[1]), err |-> Some(Val(r.ret)[2])]]

\* capture(out_buf) resumed after the unit of work returned: the finally
\* clause, then the read and the two stores into out_buf
capture_exit(self, w, out_buf) ==
    LET s == suspend_capture(self, w)
        r == read_capture(s.cap, s.w)
    IN  IF s.exc # "none" THEN [res |-> s, out_buf |-> out_buf]
        ELSE IF r.exc # "none" THEN [res |-> r, out_buf |-> out_buf]
        ELSE [res |-> Result("none", r.cap, r.w, None),
              out_buf |-> [out |-> Some(Val(r.ret)[1]), err |-> Some(Val(r.ret)[2])]]

\* capture(out_buf) that reads in its finally clause
capture_fail_Drains(self, w, exc) ==
    LET s == suspend_capture(self, w)
        r == read_capture(s.cap, s.w)
    IN  IF s.exc # "none" THEN s
        ELSE IF r.exc # "none" THEN r
        ELSE Result(exc, r.cap, r.w, None)

\* capture(out_buf) without try/finally: an exception skips the suspend
capture_fail_NoFinally(self, w, exc) == Result(exc, self, w, None)

\* capture(out_buf) resumed by the exception exc of the unit of work: the
\* finally clause runs and the exception goes on to the caller, unless the
\* finally clause raises its own
capture_fail(self, w, exc) ==
    LET s == suspend_capture(self, w)
    IN  IF s.exc # "none" THEN s ELSE Result(exc, s.cap, s.w, None)

\* sys.<name>.write(s) on the object target
stream_write(w, target, s) ==
    IF target = REAL THEN [exc |-> "none", toReal |-> s, w |-> w]
    ELSE IF w.heap[target].closed THEN [exc |-> "ValueError", toReal |-> <<>>, w |-> w]
    ELSE [exc |-> "none", toReal |-> <<>>,
          w |-> [w EXCEPT !.heap[target] = StringIOWrite(@, s)]]

\* ------------------------------------------------------------- history
NoText == [n \in Names |-> <<>>]

\* scopesRun[f] is -1 once f ran anything but scopes since start_capturing
OnlyScopes(f) == scopesRun[f] >= 0

Call(op, f, exc, ret) == [op |-> op, f |-> f, exc |-> exc, ret |-> ret]

\* what the two buffers of a session hold
Buffered(cap, h) ==
    IF cap = None THEN NoText
    ELSE [n \in Names |->
            h[(IF n = sys_io_name(1) THEN Val(cap).out ELSE Val(cap).err).tmp_io].data]

\* a call between the entry and the exit of a scope: the scope no longer
\* holds writes only, and what it wrote and started from is no longer kept
Disturbed(st) ==
    [i \in 1..Len(st) |->
        [st[i] EXCEPT !.pure = FALSE, !.w = NoText, !.pre = NoText, !.outer = None,
                      !.late = None]]

Written(st, n, s) ==
    [i \in 1..Len(st) |->
        IF st[i].pure THEN [st[i] EXCEPT !.w[n] = @ \o s]
        ELSE IF st[i].late # None THEN [st[i] EXCEPT !.late = Some([Val(@) EXCEPT ![n] = @ \o s])]
        ELSE st[i]]

\* a scope of f, nested in the scope on top of st, has exited normally: late
\* is what the enclosing scope wrote since, while it held only writes since
Drained(st, f) ==
    IF st # <<>> /\ st[Len(st)].f = f
    THEN [st EXCEPT ![Len(st)].late = Some(NoText)]
    ELSE st

\* ------------------------------------------------------------- actions
\* the process starts with the IOCapture instances F, none of them capturing
InitWith(F) ==
    /\ facades = F
    /\ capture = [f \in AllFacades |-> None]
    /\ sys = [n \in Names |-> REAL]
    /\ heap = [i \in BufIds |-> StringIOClose(NewStringIO)]
    /\ real = NoText
    /\ sink = [d \in Sinks |-> [out |-> None, err |-> None]]
    /\ stack = <<>>
    /\ last = Call("init", 0, "none", None)
    /\ exited = None
    /\ phase = [f \in AllFacades |-> "INACTIVE"]
    /\ scopesRun = [f \in AllFacades |-> -1]
    /\ liveAtStart = [f \in AllFacades |-> [n \in Names |-> REAL]]
    /\ dropped = NoText
    /\ nwrites = 0

\* one IOCapture in the process
Init == InitWith({1})

\* two IOCaptures in the process
InitTwo == InitWith(AllFacades)

\* the part of an action every method call shares
Apply(f, op, r, ph) ==
    /\ capture' = [capture EXCEPT ![f] = r.cap]
    /\ sys' = r.w.sys
    /\ heap' = r.w.heap
    /\ last' = Call(op, f, r.exc, r.ret)
    /\ phase' = [phase EXCEPT ![f] = ph]
    /\ UNCHANGED <<facades, real, nwrites>>

\* the calls that start no session
NoStart == UNCHANGED liveAtStart

\* the calls after which the text a stop closed is no longer kept
NoStop == dropped' = NoText

StartCapturing(f) ==
    LET r == start_capturing(capture[f], World)
    IN  /\ Cardinality(FreeIds(World, {})) >= 2
        /\ Apply(f, "start_capturing", r, IF r.exc = "none" THEN "STARTED" ELSE phase[f])
        /\ stack' = Disturbed(stack)
        /\ scopesRun' = [g \in AllFacades |->
                           IF g = f /\ r.exc = "none" /\ stack = <<>> THEN 0 ELSE -1]
        /\ liveAtStart' = IF r.exc = "none" THEN [liveAtStart EXCEPT ![f] = sys]
                           ELSE liveAtStart
        /\ UNCHANGED dropped
        /\ exited' = None
        /\ UNCHANGED sink

StopCapturing(f) ==
    LET r == stop_capturing(capture[f], World)
    IN  /\ Apply(f, "stop_capturing", r, "INACTIVE")
        /\ stack' = Disturbed(stack)
        /\ scopesRun' = [g \in AllFacades |-> -1]
        /\ NoStart
        /\ dropped' = Buffered(capture[f], heap)
        /\ exited' = None
        /\ UNCHANGED sink

ResumeCapture(f) ==
    LET r == resume_capture(capture[f], World)
    IN  /\ Apply(f, "resume_capture", r, IF capture[f] # None THEN "RESUMED" ELSE phase[f])
        /\ stack' = Disturbed(stack)
        /\ scopesRun' = [g \in AllFacades |-> -1]
        /\ NoStart
        /\ NoStop
        /\ exited' = None
        /\ UNCHANGED sink

ReadCapture(f) ==
    LET r == read_capture(capture[f], World)
    IN  /\ Apply(f, "read_capture", r, phase[f])
        /\ stack' = Disturbed(stack)
        /\ scopesRun' = [g \in AllFacades |-> -1]
        /\ NoStart
        /\ NoStop
        /\ exited' = None
        /\ UNCHANGED sink

SuspendCapture(f) ==
    LET r == suspend_capture(capture[f], World)
    IN  /\ Apply(f, "suspend_capture", r, IF r.exc = "none" THEN "SUSPENDED" ELSE phase[f])
        /\ stack' = Disturbed(stack)
        /\ scopesRun' = [g \in AllFacades |-> -1]
        /\ NoStart
        /\ NoStop
        /\ exited' = None
        /\ UNCHANGED sink

Top == stack[Len(stack)]

Pop == SubSeq(stack, 1, Len(stack) - 1)

\* with f.capture(d): entered; outer is what the enclosing scope of f, if it
\* held only writes so far, has written
CaptureEnter(f, d) ==
    LET r == capture_enter(capture[f], World)
    IN  /\ Len(stack) < MaxDepth
        /\ Apply(f, "capture.enter", r, IF capture[f] # None THEN "RESUMED" ELSE phase[f])
        /\ stack' = Append(Disturbed(stack),
                           [f |-> f, d |-> d, w |-> NoText,
                            pre |-> Buffered(capture[f], heap), pure |-> TRUE,
                            outer |-> IF stack # <<>> /\ Top.pure /\ Top.f = f
                                      THEN Some(Top.w) ELSE None,
                            late |-> None])
        /\ scopesRun' = [g \in AllFacades |->
                           IF g = f /\ stack = <<>> THEN scopesRun[f] ELSE -1]
        /\ NoStart
        /\ NoStop
        /\ exited' = None
        /\ UNCHANGED sink

\* the unit of work of the innermost scope returned
CaptureExit ==
    /\ stack # <<>>
    /\ LET f == Top.f
           x == capture_exit(capture[f], World, sink[Top.d])
       IN  /\ Apply(f, "capture.exit", x.res, IF capture[f] # None THEN "SUSPENDED" ELSE phase[f])
           /\ sink' = [sink EXCEPT ![Top.d] = x.out_buf]
           /\ NoStart
           /\ NoStop
           /\ exited' = Some([scope |-> Top, before |-> sink[Top.d]])
           /\ stack' = IF capture[f] # None /\ x.res.exc = "none"
                       THEN Drained(Disturbed(Pop), f) ELSE Disturbed(Pop)
           /\ scopesRun' = [g \in AllFacades |->
                              IF g = f /\ OnlyScopes(f) /\ x.res.exc = "none"
                              THEN (IF scopesRun[f] < 2 THEN scopesRun[f] + 1 ELSE 2)
                              ELSE -1]

\* the unit of work of the innermost scope raised
CaptureFail ==
    /\ stack # <<>>
    /\ LET f == Top.f
           r == capture_fail(capture[f], World, "WorkError")
       IN  /\ Apply(f, "capture.fail", r, IF capture[f] # None THEN "SUSPENDED" ELSE phase[f])
           /\ stack' = Disturbed(Pop)
           /\ scopesRun' = [g \in AllFacades |-> -1]
           /\ NoStart
           /\ NoStop
           /\ exited' = Some([scope |-> Top, before |-> sink[Top.d]])
           /\ UNCHANGED sink

\* print(...) or sys.stderr.write(...): a write to whatever sys holds
Write(n, s) ==
    LET r == stream_write(World, sys[n], s)
    IN  /\ nwrites < MaxWrites
        /\ nwrites' = nwrites + 1
        /\ sys' = r.w.sys
        /\ heap' = r.w.heap
        /\ real' = [real EXCEPT ![n] = @ \o r.toReal]
        /\ last' = Call("write", 0, r.exc, None)
        /\ exited' = None
        /\ stack' = Written(stack, n, s)
        /\ scopesRun' = [g \in AllFacades |-> IF stack # <<>> THEN scopesRun[g] ELSE -1]
        /\ NoStop
        /\ UNCHANGED <<facades, capture, sink, phase, liveAtStart>>

Next ==
    \/ \E f \in facades : StartCapturing(f)
    \/ \E f \in facades : StopCapturing(f)
    \/ \E f \in facades : ResumeCapture(f)
    \/ \E f \in facades : ReadCapture(f)
    \/ \E f \in facades : SuspendCapture(f)
    \/ \E f \in facades, d \in Sinks : CaptureEnter(f, d)
    \/ CaptureExit
    \/ CaptureFail
    \/ \E n \in Names, s \in Texts : Write(n, s)

Spec == Init /\ [][Next]_vars

\* the sessions of two IOCaptures started and stopped in any order, with
\* writes in between
NextTwo ==
    \/ \E f \in facades : StartCapturing(f)
    \/ \E f \in facades : StopCapturing(f)
    \/ \E f \in facades : SuspendCapture(f)
    \/ \E f \in facades : ResumeCapture(f)
    \/ \E f \in facades : ReadCapture(f)
    \/ \E n \in Names, s \in Texts : Write(n, s)

SpecTwo == InitTwo /\ [][NextTwo]_vars

\* ------------------------------------------------------------- notions
OUT == sys_io_name(1)
ERR == sys_io_name(2)

Active(f) == capture[f] # None

\* the state of the program, without the history kept beside it
ProgState == <<capture, sys, heap, real, sink>>

\* the StdCapture of a session for a channel
Redirector(cap, n) == IF n = OUT THEN Val(cap).out ELSE Val(cap).err

\* what a read_capture issued in the given state would return
NextRead(cap, s, h) == read_capture(cap, [sys |-> s, heap |-> h]).ret

TextPair(t) == Some(<<t[OUT], t[ERR]>>)

SinkOf(t) == [out |-> Some(t[OUT]), err |-> Some(t[ERR])]

Cat(t, u) == [n \in Names |-> t[n] \o u[n]]

\* a scope that held nothing but writes returns, in an active session
PureExit == CaptureExit /\ Top.pure /\ Active(Top.f)

\* ------------------------------------------------------------- C1
\* C1 as stated: when a scope of an active session that held only writes W1
\* (output) and W2 (error) exits normally, the sink holds exactly W1 under
\* 'out' and W2 under 'err', whatever preceded the scope.
C1_Original == [][PureExit => sink'[Top.d] = SinkOf(Top.w)]_vars

\* C1 amended: the sink holds, per channel, the text the buffer held unread
\* when the scope was entered followed by exactly the writes of the scope.
C1_ScopeSink ==
    [][PureExit => /\ last'.exc = "none"
                   /\ sink'[Top.d] = SinkOf(Cat(Top.pre, Top.w))]_vars

\* a scope entered with a unread in the output buffer wrote b to the output
\* and a to the error channel and exited normally: the sink holds ab and a
C1_Witness ==
    /\ last.op = "capture.exit" /\ last.exc = "none"
    /\ exited # None
    /\ Val(exited).scope.pure
    /\ Val(exited).scope.pre = [n \in Names |-> IF n = OUT THEN <<"a">> ELSE <<>>]
    /\ Val(exited).scope.w = [n \in Names |-> IF n = OUT THEN <<"b">> ELSE <<"a">>]
    /\ sink["d1"] = [out |-> Some(<<"a", "b">>), err |-> Some(<<"a">>)]

\* ------------------------------------------------------------- C2
\* C2: a write issued while the session is suspended (the last lifecycle
\* call that succeeded is a suspend or the exit of a scope) reaches the real
\* channel, leaves every buffer as it is and so changes nothing a later read
\* returns.
C2_SuspendedWritesReal ==
    [][\A f \in facades, n \in Names, s \in Texts :
         (Write(n, s) /\ phase[f] = "SUSPENDED") =>
            /\ real'[n] = real[n] \o s
            /\ heap' = heap
            /\ NextRead(capture'[f], sys', heap') = NextRead(capture[f], sys, heap)]_vars

\* a read issued after a suspended write returned nothing of it
C2_Witness ==
    /\ phase[1] = "SUSPENDED" /\ stack = <<>>
    /\ last.op = "read_capture" /\ last.ret = TextPair(NoText)
    /\ real[OUT] = <<"a">> /\ real[ERR] = <<"b">>

\* ------------------------------------------------------------- C3
\* C3: a successful start_capturing leaves both channels on their buffers,
\* and a write issued before any scope, resume or suspend goes to the buffer,
\* not to the real channel, and is part of what the next read returns.
C3_StartBuffers ==
    /\ [][\A f \in facades :
            (StartCapturing(f) /\ ~Active(f)) =>
               /\ last'.exc = "none"
               /\ \A n \in Names : sys'[n] = Redirector(capture'[f], n).tmp_io]_vars
    /\ [][\A f \in facades, n \in Names, s \in Texts :
            (Write(n, s) /\ phase[f] = "STARTED") =>
               /\ real' = real
               /\ Val(NextRead(capture'[f], sys', heap'))[IF n = OUT THEN 1 ELSE 2]
                    = Val(NextRead(capture[f], sys, heap))[IF n = OUT THEN 1 ELSE 2] \o s]_vars

\* the read after start_capturing returned what was written before any scope
C3_Witness ==
    /\ phase[1] = "STARTED"
    /\ last.op = "read_capture" /\ last.ret = Some(<<(<<"a", "b">>), (<<"b">>)>>)
    /\ real = NoText

\* ------------------------------------------------------------- C4
\* C4: when the unit of work of a scope of an active session fails, the
\* suspend still runs (both channels are back on the target the session
\* found), nothing is drained, the sink is not touched and the failure of the
\* unit of work reaches the caller.
C4_FailedScope ==
    [][(CaptureFail /\ Active(Top.f)) =>
          /\ \A n \in Names : sys'[n] = Redirector(capture[Top.f], n).old
          /\ heap' = heap
          /\ sink' = sink
          /\ last'.exc = "WorkError"]_vars

\* a scope that had written a to both channels failed: the text is still in
\* the buffers, the channels are real again and the sink holds what an
\* earlier scope had left in it
C4_Witness ==
    /\ last.op = "capture.fail" /\ last.exc = "WorkError"
    /\ Active(1)
    /\ exited # None
    /\ Val(exited).scope.w = [n \in Names |-> <<"a">>]
    /\ Val(exited).before = [out |-> Some(<<"b">>), err |-> Some(<<>>)]
    /\ sink["d1"] = Val(exited).before
    /\ Buffered(capture[1], heap) = [n \in Names |-> <<"a">>]
    /\ sys = [n \in Names |-> REAL]

\* ------------------------------------------------------------- C5
\* C5: a read_capture of an active session returns all the text the two
\* buffers hold and leaves both empty, so that a read issued right after it
\* returns the empty string for both channels.
C5_DestructiveDrain ==
    [][\A f \in facades :
         (ReadCapture(f) /\ Active(f)) =>
            /\ last'.exc = "none"
            /\ last'.ret = TextPair(Buffered(capture[f], heap))
            /\ Buffered(capture'[f], heap') = NoText
            /\ NextRead(capture'[f], sys', heap') = TextPair(NoText)]_vars

\* a read returned text of both channels
C5_Witness ==
    /\ last.op = "read_capture" /\ last.exc = "none"
    /\ last.ret = Some(<<(<<"a", "b">>), (<<"b">>)>>)
    /\ Buffered(capture[1], heap) = NoText

OpenBuffers == {i \in BufIds : ~heap[i].closed}

SessionBuffers(f) == IF Active(f) THEN {Redirector(capture[f], n).tmp_io : n \in Names} ELSE {}

\* C7: start_capturing on an active session fails with the AssertionError of
\* its precondition and changes nothing; so no facade ever has more than the
\* two buffers of its one session open.
C7_AlreadyCapturing ==
    /\ [][\A f \in facades :
            (StartCapturing(f) /\ Active(f)) =>
               /\ last'.exc = "AssertionError"
               /\ UNCHANGED ProgState]_vars
    /\ [](OpenBuffers = UNION {SessionBuffers(f) : f \in facades})

\* the second start_capturing failed and the buffered text is still there
C7_Witness ==
    /\ last.op = "start_capturing" /\ last.exc = "AssertionError"
    /\ Buffered(capture[1], heap) = [n \in Names |-> <<"a">>]

\* ------------------------------------------------------------- C8
\* C8: read_capture without a session fails with the AssertionError of its
\* precondition and changes nothing.
C8_NoActiveSession ==
    [][\A f \in facades :
         (ReadCapture(f) /\ ~Active(f)) =>
            /\ last'.exc = "AssertionError"
            /\ last'.ret = None
            /\ UNCHANGED ProgState]_vars

\* a read failed after the session (in which a scope had completed) was stopped
C8_Witness ==
    /\ last.op = "read_capture" /\ last.exc = "AssertionError"
    /\ ~Active(1)
    /\ sink["d1"].out # None

\* ------------------------------------------------------------- C9
\* C9: stop_capturing never fails; without a session it changes nothing;
\* with one, whatever the channels are on, it leaves the facade without a
\* Coordinator; and start_capturing on a facade without one succeeds.
C9_Stop ==
    /\ [][\A f \in facades :
            StopCapturing(f) =>
               /\ last'.exc = "none"
               /\ capture'[f] = None
               /\ (~Active(f) => UNCHANGED ProgState)]_vars
    /\ [][\A f \in facades :
            (StartCapturing(f) /\ ~Active(f)) =>
               /\ last'.exc = "none"
               /\ Active(f)']_vars

\* a session was started after an earlier one, in which a scope completed,
\* had been stopped
C9_Witness ==
    /\ last.op = "start_capturing" /\ last.exc = "none"
    /\ Active(1)
    /\ sink["d1"].out # None

\* ------------------------------------------------------------- C10
\* C10: without a session resume_capture returns normally and suspend_capture
\* fails with the AttributeError of None; both change nothing.
C10_ResumeSuspendInactive ==
    /\ [][\A f \in facades :
            (ResumeCapture(f) /\ ~Active(f)) =>
               /\ last'.exc = "none"
               /\ UNCHANGED ProgState]_vars
    /\ [][\A f \in facades :
            (SuspendCapture(f) /\ ~Active(f)) =>
               /\ last'.exc = "AttributeError"
               /\ UNCHANGED ProgState]_vars

\* suspend_capture failed on a facade whose session had been stopped
C10_Witness ==
    /\ last.op = "suspend_capture" /\ last.exc = "AttributeError"
    /\ ~Active(1)
    /\ real[OUT] # <<>>

\* ------------------------------------------------------------- C11
\* C11: with one facade, whatever was called between start_capturing and
\* stop_capturing, stop_capturing leaves on each channel the object that was
\* installed when start_capturing was called, and a write issued while no
\* session is active reaches that object and no buffer.
C11_StopRestores ==
    /\ [][\A f \in facades :
            (StopCapturing(f) /\ Active(f)) =>
               \A n \in Names : sys'[n] = liveAtStart[f][n]]_vars
    /\ [][\A f \in facades, n \in Names, s \in Texts :
            (Write(n, s) /\ ~Active(f)) =>
               /\ last'.exc = "none"
               /\ heap' = heap
               /\ real'[n] = real[n] \o s]_vars

\* a scope captured a, the session was stopped, and the b written after the
\* stop reached the real output
C11_Witness ==
    /\ last.op = "write" /\ last.exc = "none"
    /\ ~Active(1)
    /\ nwrites = 2
    /\ sink["d1"] = [out |-> Some(<<"a">>), err |-> Some(<<>>)]
    /\ real = [n \in Names |-> IF n = OUT THEN <<"b">> ELSE <<>>]

\* ------------------------------------------------------------- C12
\* the mode of a channel: BUFFERED while sys holds a StringIO
Mode(s, n) == IF s[n] = REAL THEN "REAL" ELSE "BUFFERED"

\* the calls that redirect (start, resume, entry of a scope) and the calls
\* that restore (suspend, finish, either exit of a scope)
RedirectingCalls == {"start_capturing", "resume_capture", "capture.enter"}

RestoringCalls == {"suspend_capture", "stop_capturing", "capture.exit", "capture.fail"}

\* C12: between two calls both channels are in the same mode, BUFFERED only
\* on the buffers of the session in progress; and a call that fails on a
\* precondition (AssertionError, AttributeError) has changed neither channel.
C12_PairedModes ==
    /\ [](/\ Mode(sys, OUT) = Mode(sys, ERR)
          /\ \A f \in facades :
                Mode(sys, OUT) = "BUFFERED" =>
                   /\ Active(f)
                   /\ \A n \in Names : sys[n] = Redirector(capture[f], n).tmp_io)
    /\ [][(last'.op # "write" /\ last'.exc \in {"AssertionError", "AttributeError"})
             => sys' = sys]_vars

\* a session suspended and resumed: both channels are back on its buffers
C12_Witness ==
    /\ last.op = "resume_capture" /\ phase[1] = "RESUMED"
    /\ Mode(sys, OUT) = "BUFFERED" /\ Mode(sys, ERR) = "BUFFERED"
    /\ real = [n \in Names |-> <<"a">>]

\* ------------------------------------------------------------- C13
\* C13: a channel goes from REAL to BUFFERED only in a call that starts or
\* resumes (start_capturing, resume_capture, the entry of a scope) and from
\* BUFFERED to REAL only in a call that suspends or finishes (suspend_capture,
\* stop_capturing, either exit of a scope); read_capture and writes leave
\* what sys holds as it is.
C13_ModeTransitions ==
    /\ [][\A n \in Names :
            /\ (Mode(sys, n) = "REAL" /\ Mode(sys', n) = "BUFFERED")
                  => last'.op \in RedirectingCalls
            /\ (Mode(sys, n) = "BUFFERED" /\ Mode(sys', n) = "REAL")
                  => last'.op \in RestoringCalls]_vars
    /\ [][\A f \in facades : ReadCapture(f) => sys' = sys]_vars
    /\ [][\A n \in Names, s \in Texts : Write(n, s) => sys' = sys]_vars

\* a read and then a write in BUFFERED mode: the channels are still BUFFERED
\* and the write is in the buffer
C13_Witness ==
    /\ last.op = "write" /\ phase[1] = "RESUMED"
    /\ Mode(sys, OUT) = "BUFFERED" /\ Mode(sys, ERR) = "BUFFERED"
    /\ sink["d1"].out # None
    /\ Buffered(capture[1], heap) = [n \in Names |-> IF n = ERR THEN <<"b">> ELSE <<>>]

\* ------------------------------------------------------------- C14
\* C14: suspend_capture and resume_capture on an active session leave the
\* buffered text as it is, so that what a read would return is the same
\* before and after; and a read_capture issued while the session is
\* suspended succeeds and returns all of it.
C14_SuspendKeepsText ==
    /\ [][\A f \in facades :
            ((SuspendCapture(f) \/ ResumeCapture(f)) /\ Active(f)) =>
               /\ last'.exc = "none"
               /\ Buffered(capture'[f], heap') = Buffered(capture[f], heap)
               /\ NextRead(capture'[f], sys', heap') = TextPair(Buffered(capture[f], heap))]_vars
    /\ [][\A f \in facades :
            (ReadCapture(f) /\ phase[f] = "SUSPENDED") =>
               /\ last'.exc = "none"
               /\ last'.ret = TextPair(Buffered(capture[f], heap))]_vars

\* text written while BUFFERED was read after the session was suspended
C14_Witness ==
    /\ last.op = "read_capture" /\ last.exc = "none"
    /\ phase[1] = "SUSPENDED" /\ stack = <<>>
    /\ last.ret = Some(<<(<<"a", "b">>), (<<"a">>)>>)
    /\ sys = [n \in Names |-> REAL]
    /\ real = NoText

\* ------------------------------------------------------------- C15
\* C15: stop_capturing on an active session closes both buffers: a snap of
\* either of its StdCaptures now raises ValueError; and read_capture on the
\* facade fails from then on, as long as no session is started.
C15_FinishTerminal ==
    /\ [][\A f \in facades :
            (StopCapturing(f) /\ Active(f)) =>
               /\ \A n \in Names :
                     /\ heap'[Redirector(capture[f], n).tmp_io].closed
                     /\ StdSnap([sys |-> sys', heap |-> heap'],
                                Redirector(capture[f], n)).exc = "ValueError"
               /\ read_capture(capture'[f], [sys |-> sys', heap |-> heap']).exc
                     = "AssertionError"]_vars
    /\ [][\A f \in facades :
            (ReadCapture(f) /\ phase[f] = "INACTIVE") =>
               last'.exc = "AssertionError"]_vars

\* a session that held unread text on both channels was stopped: no buffer
\* is open
C15_Witness ==
    /\ last.op = "stop_capturing" /\ phase[1] = "INACTIVE"
    /\ dropped = [n \in Names |-> <<"a">>]
    /\ OpenBuffers = {}
    /\ sys = [n \in Names |-> REAL]

\* ------------------------------------------------------------- C16
\* C16: when a scope of an active session that held only writes fails, what
\* it wrote stays in the buffers behind what was there at its entry; a
\* read_capture issued now returns it, and so does, at the front of its sink,
\* a scope entered now: the text is unread at its entry and the sink of a
\* scope that exits normally starts with the text unread at its entry.
C16_FailedScopeTextKept ==
    /\ [][(CaptureFail /\ Top.pure /\ Active(Top.f)) =>
             /\ Buffered(capture'[Top.f], heap') = Cat(Top.pre, Top.w)
             /\ NextRead(capture'[Top.f], sys', heap') = TextPair(Cat(Top.pre, Top.w))]_vars
    /\ [][\A f \in facades, d \in Sinks :
            (CaptureEnter(f, d) /\ Active(f)) =>
               stack'[Len(stack')].pre = Buffered(capture[f], heap)]_vars
    /\ [][PureExit =>
             /\ Val(sink'[Top.d].out) = Top.pre[OUT] \o Top.w[OUT]
             /\ Val(sink'[Top.d].err) = Top.pre[ERR] \o Top.w[ERR]]_vars

\* a scope that had written a to the output and b to the error channel
\* failed: both are what a read would return now
C16_Witness ==
    /\ last.op = "capture.fail" /\ last.exc = "WorkError"
    /\ exited # None
    /\ Val(exited).scope.pure
    /\ Val(exited).scope.pre = NoText
    /\ Val(exited).scope.w = [n \in Names |-> IF n = OUT THEN <<"a">> ELSE <<"b">>]
    /\ NextRead(capture[1], sys, heap) = Some(<<(<<"a">>), (<<"b">>)>>)

\* ------------------------------------------------------------- C17
\* C17: a scope entered on a facade without a session is entered normally
\* and changes nothing; the writes of its unit of work reach the real
\* channels; its normal exit on a facade without a session, whether there
\* was none at entry or the unit of work stopped it, fails with the
\* AttributeError of suspend_capture, stores nothing in the sink and leaves
\* the facade without a session.
C17_ScopeWithoutSession ==
    /\ [][\A f \in facades, d \in Sinks :
            (CaptureEnter(f, d) /\ ~Active(f)) =>
               /\ last'.exc = "none"
               /\ Len(stack') = Len(stack) + 1
               /\ UNCHANGED ProgState]_vars
    /\ [][\A n \in Names, s \in Texts :
            (Write(n, s) /\ stack # <<>> /\ \A f \in facades : ~Active(f)) =>
               real'[n] = real[n] \o s]_vars
    /\ [][\A f \in facades :
            (CaptureExit /\ Top.f = f /\ ~Active(f)) =>
               /\ last'.exc = "AttributeError"
               /\ capture'[f] = None
               /\ UNCHANGED ProgState]_vars

\* a scope entered without a session wrote a, which reached the real output,
\* and failed on its exit; the sink is empty
C17_Witness ==
    /\ last.op = "capture.exit" /\ last.exc = "AttributeError"
    /\ exited # None
    /\ Val(exited).scope.pure
    /\ Val(exited).scope.w = [n \in Names |-> IF n = OUT THEN <<"a">> ELSE <<>>]
    /\ real = [n \in Names |-> IF n = OUT THEN <<"a">> ELSE <<>>]
    /\ phase[1] = "INACTIVE"
    /\ sink["d1"] = [out |-> None, err |-> None]

\* ------------------------------------------------------------- C18
EndsWith(t, u) ==
    \A n \in Names :
        /\ Len(u[n]) <= Len(t[n])
        /\ SubSeq(t[n], Len(t[n]) - Len(u[n]) + 1, Len(t[n])) = u[n]

\* C18: either exit of a scope, nested or not, leaves both channels on the
\* real targets; what the enclosing scope writes after a nested scope has
\* exited normally reaches the real channels and no buffer, and the sink of
\* the enclosing scope, when it exits with nothing but these writes since,
\* holds two empty texts; the sink of a nested scope that held only writes
\* starts with the text unread at its entry, which ends with what the
\* enclosing scope had written.
C18_NestedScopes ==
    /\ [][(CaptureExit \/ CaptureFail) => \A n \in Names : Mode(sys', n) = "REAL"]_vars
    /\ [][((CaptureExit \/ CaptureFail) /\ Len(stack) > 1) =>
             /\ stack' # <<>>
             /\ sys' = [n \in Names |-> REAL]]_vars
    /\ [][\A n \in Names, s \in Texts :
            (Write(n, s) /\ stack # <<>> /\ Top.late # None) =>
               /\ real'[n] = real[n] \o s
               /\ heap' = heap
               /\ Buffered(capture[Top.f], heap) = NoText]_vars
    /\ [][(CaptureExit /\ Top.late # None) =>
             /\ last'.exc = "none"
             /\ sink'[Top.d] = SinkOf(NoText)]_vars
    /\ [][(PureExit /\ Top.outer # None) =>
             /\ EndsWith(Top.pre, Val(Top.outer))
             /\ sink'[Top.d] = SinkOf(Cat(Top.pre, Top.w))]_vars

\* the outer scope wrote a, the nested scope wrote b and exited with a and b
\* in its sink, the outer scope wrote a again, which reached the real output,
\* and exited with nothing in its sink
C18_Witness ==
    /\ last.op = "capture.exit" /\ last.exc = "none"
    /\ stack = <<>>
    /\ exited # None
    /\ Val(exited).before = [out |-> Some(<<"a", "b">>), err |-> Some(<<>>)]
    /\ Val(exited).scope.late = Some([n \in Names |-> IF n = OUT THEN <<"a">> ELSE <<>>])
    /\ real = [n \in Names |-> IF n = OUT THEN <<"a">> ELSE <<>>]
    /\ sink["d1"] = SinkOf(NoText)
    /\ sys = [n \in Names |-> REAL]

\* ------------------------------------------------------------- C19
\* C19: stop_capturing of an active session closes both buffers with
\* whatever unread text they hold and drops the session; a start_capturing
\* that succeeds afterwards has two open, empty buffers, none of them a
\* buffer of the session before, and a read_capture issued right after it
\* returns two empty texts.
C19_UnreadTextDiscarded ==
    /\ [][\A f \in facades :
            (StopCapturing(f) /\ Active(f)) =>
               /\ capture'[f] = None
               /\ \A n \in Names : heap'[Redirector(capture[f], n).tmp_io].closed
               /\ OpenBuffers' = OpenBuffers \ SessionBuffers(f)]_vars
    /\ [][\A f \in facades :
            (StartCapturing(f) /\ ~Active(f)) =>
               /\ last'.exc = "none"
               /\ Buffered(capture'[f], heap') = NoText
               /\ \A n \in Names :
                     /\ ~heap'[Redirector(capture'[f], n).tmp_io].closed
                     /\ Redirector(capture'[f], n).tmp_io \notin OpenBuffers
               /\ NextRead(capture'[f], sys', heap') = TextPair(NoText)]_vars

\* a session that held the unread texts a and b was stopped and the next
\* one has just started: its buffers are empty
C19_Witness ==
    /\ last.op = "start_capturing" /\ last.exc = "none"
    /\ dropped = [n \in Names |-> IF n = OUT THEN <<"a">> ELSE <<"b">>]
    /\ Active(1)
    /\ Buffered(capture[1], heap) = NoText
    /\ NextRead(capture[1], sys, heap) = TextPair(NoText)

\* ------------------------------------------------------------- C20
\* C20: with two IOCaptures, whatever the order of their start_capturing and
\* stop_capturing calls, no channel of sys is ever left on a closed buffer,
\* the buffer of a session that has been stopped, and whenever neither
\* IOCapture has a session both channels are on the real targets.
C20_OneHolder ==
    /\ \A n \in Names : sys[n] # REAL => ~heap[sys[n]].closed
    /\ (\A f \in facades : ~Active(f)) => sys = [n \in Names |-> REAL]

====
